---- MODULE Spec2Model ----
(***************************************************************************)
(* Hyperplane: the navigation history of a HypNavigationBin                *)
(* (navigation_bin.py) and the breadcrumb path bar HypPathBar              *)
(* (path_bar.py), as state machines.                                       *)
(*                                                                         *)
(* Python's Optional values are modelled as sequences of length 0 or 1:    *)
(* None is <<>> and a value v is <<v>>.  A Gio.File is modelled by what    *)
(* the code reads from it.  Widgets (pages, segments) are identified by    *)
(* the order of their construction, so that two widgets showing the same   *)
(* location are still two different objects.                               *)
(***************************************************************************)
EXTENDS Integers, Sequences, FiniteSets, TLC

(***************************************************************************)
(* Bounds of the model.                                                    *)
(***************************************************************************)
\* The number of HypItemsPage objects constructed in one behaviour.
MaxPages == 3

\* The number of operations on the path bar in one behaviour.
MaxBarOps == 3

\* The largest n of a remove(n) call.
MaxRemove == 3

\* The number of calls on the tag registry in one behaviour.
MaxTagOps == 3

\* The number of children selected when the trash action runs, and the
\* number of times it runs in one behaviour.
MaxSelected == 3

MaxTrashOps == 2

(***************************************************************************)
(* Python values.                                                          *)
(***************************************************************************)
None == <<>>

Some(v) == <<v>>

Last(s) == s[Len(s)]

Front(s) == SubSeq(s, 1, Len(s) - 1)

Range(s) == {s[i] : i \in 1..Len(s)}

Reverse(s) == [i \in 1..Len(s) |-> s[Len(s) + 1 - i]]

\* Sequences over S of length at most n.
SeqsUpTo(S, n) == UNION {[1..k -> S] : k \in 0..n}

\* A list's truthiness: None and the empty list are both falsy.
ListTruthy(opt) == opt # None /\ opt[1] # <<>>

\* A string's truthiness: None and "" are both falsy.
StrTruthy(opt) == opt # None /\ opt[1] # ""

(***************************************************************************)
(* The inputs of the navigation surface.                                   *)
(***************************************************************************)
\* The URIs of the Gio.File objects handed to the bin.
Uris == {"file:///a", "file:///b"}

TagNames == {"x", "y"}

\* The tag lists handed to the bin: the registry's tags, each at most once,
\* in any order, and the empty list.
TagLists == {ts \in SeqsUpTo(TagNames, Cardinality(TagNames)) :
                 \A i, j \in 1..Len(ts) : i # j => ts[i] # ts[j]}

\* The calls of new_page(gfile, tag, tags), None standing for an argument
\* left out: with a file alone, with a non-empty tag list alone, with a tag
\* alone, with nothing, with an empty tag and an empty tag list, with a tag
\* and an empty tag list, and with everything at once.  A Gio.File is
\* modelled by its get_uri().
NewPageArgs ==
    {<<Some(u), None, None>> : u \in Uris}
    \cup {<<None, None, Some(ts)>> : ts \in TagLists \ {<<>>}}
    \cup {<<None, Some(t), None>> : t \in TagNames}
    \cup {<<None, None, None>>,
          <<None, Some(""), Some(<<>>)>>,
          <<None, Some("x"), Some(<<>>)>>,
          <<Some("file:///a"), Some("y"), Some(<<"x">>)>>}

\* The calls of HypNavigationBin(initial_gfile, initial_tags): a bin is made
\* for a file or for a tag list.
InitArgs ==
    {<<Some("file:///a"), None>>,
     <<None, Some(<<"x">>)>>,
     <<Some("file:///b"), Some(<<"y">>)>>}

(***************************************************************************)
(* The state.                                                              *)
(***************************************************************************)
VARIABLES
    items_pages,   \* the HypItemsPage objects constructed so far; a page is
                   \* identified by its index, and has a gfile and a tags
    view,          \* the AdwNavigationView: its navigation stack (the
                   \* history, the visible page last), its child pages and
                   \* the children it drops when they are popped
    next_pages,    \* HypNavigationBin.next_pages, the forward buffer
    nav_op,        \* history variable: the last operation and its arguments
    nav_pre,       \* history variable: the bin just before the last
                   \* operation, and the page the operation before it popped
    nav_phase,     \* history variable: "pushes" while only new_page has run,
                   \* "backs" while only go_back has run since (and how many
                   \* times), else "other"
    nav_trip       \* history variable: the go_back/go_forward steps taken
                   \* since the forward buffer was last seen empty

VARIABLES
    path_segments, \* the HypPathSegment objects constructed so far; a
                   \* segment is identified by its index n, and the
                   \* separator made with it by -n
    segments,      \* HypPathBar.segments, the displayed segments
    separators,    \* HypPathBar.separators, from segment to separator
    bar_tags,      \* HypPathBar.tags, whether the bar shows tags
    segments_box,  \* the children of HypPathBar.segments_box, in order
    timeouts,      \* the pending GLib.timeout_add(__remove_child) calls
    bar_op,        \* history variable: the last operation, its arguments
                   \* and the exception it raised, if any
    bar_pre,       \* history variable: the bar just before the last
                   \* operation
    bar_ops        \* history variable: the number of operations so far

nav_vars == <<items_pages, view, next_pages, nav_op, nav_pre, nav_phase, nav_trip>>

bar_vars == <<path_segments, segments, separators, bar_tags, segments_box,
              timeouts, bar_op, bar_pre, bar_ops>>

VARIABLES
    shared_tags,   \* shared.tags, the list of tags
    tag_file,      \* the text of the file shared.home_path / ".hyperplane"
    tag_log,       \* history variable: what the last call did outside the
                   \* list, in order: <<"write", text>> for a write_text of
                   \* the file, <<"emit", change>> for a "tags-changed"
    tag_op,        \* history variable: the last call, its arguments and the
                   \* exception it raised, if any
    tag_pre,       \* history variable: the list and the file just before
                   \* the last call
    tag_ops        \* history variable: the number of calls so far

tag_vars == <<shared_tags, tag_file, tag_log, tag_op, tag_pre, tag_ops>>

VARIABLES
    folder,        \* the names of the files the visible page shows
    trash_op,      \* history variable: the last run of the trash action:
                   \* the selected children, the files whose trash() fails
                   \* and whether a HypTag has a path
    trash_calls,   \* history variable: the names of the files the last run
                   \* called trash() on, in order
    trash_done,    \* history variable: the names of the files the last run
                   \* moved to the trash
    trash_updates, \* history variable: the number of items_page.update()
                   \* calls of the last run
    trash_toast,   \* history variable: the toast the last run sent, if any
    trash_error,   \* history variable: the exception the last run raised
    trash_ops      \* history variable: the number of runs so far

trash_vars == <<folder, trash_op, trash_calls, trash_done, trash_updates,
                trash_toast, trash_error, trash_ops>>

vars == <<nav_vars, bar_vars, tag_vars, trash_vars>>

\* What the operations of the navigation surface, of the path bar, of the
\* tag registry and of the trash action leave alone.
nav_rest == <<bar_vars, tag_vars, trash_vars>>

bar_rest == <<nav_vars, tag_vars, trash_vars>>

tag_rest == <<nav_vars, bar_vars, trash_vars>>

trash_rest == <<nav_vars, bar_vars, tag_vars>>

(***************************************************************************)
(* HypItemsPage: the page keeps the file or the tag list it was built for. *)
(***************************************************************************)
HypItemsPage(gfile, tags) == [gfile |-> gfile, tags |-> tags]

\* The state of a bin, as one value the handlers transform.
Bin == [items_pages |-> items_pages, view |-> view, next_pages |-> next_pages]

\* AdwNavigationView.get_visible_page(): the top of the navigation stack.
get_visible_page(b) ==
    IF b.view.stack = <<>> THEN None ELSE Some(Last(b.view.stack))

(***************************************************************************)
(* The AdwNavigationView the bin drives, with the bin's signal handlers.   *)
(* A signal is delivered synchronously, inside the call that emits it.     *)
(***************************************************************************)
\* AdwNavigationView.add(page): page becomes a permanent child of the view,
\* and the visible page when the view had none.
view_add(b, p) ==
    [b EXCEPT !.view.stack = IF @ = <<>> THEN <<p>> ELSE @,
              !.view.children = @ \cup {p},
              !.view.remove_on_pop = @ \ {p}]

\* AdwNavigationView.remove(page): a page on the navigation stack is dropped
\* once it is popped, any other page at once.
view_remove(b, p) ==
    IF p \in Range(b.view.stack)
    THEN [b EXCEPT !.view.remove_on_pop = @ \cup {p}]
    ELSE [b EXCEPT !.view.children = @ \ {p}]

RECURSIVE remove_each(_, _)
\* for next_page in self.next_pages: self.view.remove(next_page)
remove_each(b, ps) ==
    IF ps = <<>> THEN b ELSE remove_each(view_remove(b, ps[1]), Tail(ps))

\* A plausible slip: the pushed page is always taken off the buffer's top.
pushed_pop_only(b) ==
    IF b.next_pages = <<>> THEN b ELSE [b EXCEPT !.next_pages = Front(@)]

\* A plausible slip: the whole buffer is dropped even when its top was pushed.
pushed_clear_always(b) ==
    IF b.next_pages = <<>>
    THEN b
    ELSE [remove_each(b, b.next_pages) EXCEPT !.next_pages = <<>>]

\* A plausible slip: the handler leaves the forward buffer as it is.
pushed_keeps_buffer(b) == b

\* HypNavigationBin.__pushed, the handler of the view's "pushed" signal.
pushed(b) ==
    LET page == Last(b.view.stack) IN
    IF b.next_pages = <<>>
    THEN b
    ELSE IF page = Last(b.next_pages)
         THEN [b EXCEPT !.next_pages = Front(@)]
         ELSE [remove_each(b, b.next_pages) EXCEPT !.next_pages = <<>>]

\* A plausible slip: the popped page is not kept for going forward.
popped_forgets(b, page) == b

\* HypNavigationBin.__popped, the handler of the view's "popped" signal.
popped(b, page) == [b EXCEPT !.next_pages = Append(@, page)]

\* AdwNavigationView.push(page): refuses a page that is already on the stack;
\* otherwise the page goes on top (a page that was never added is dropped
\* again when popped) and "pushed" is emitted.
view_push(b, p) ==
    IF p \in Range(b.view.stack)
    THEN b
    ELSE pushed([b EXCEPT
                   !.view.stack = Append(@, p),
                   !.view.children = @ \cup {p},
                   !.view.remove_on_pop =
                       IF p \in b.view.children THEN @ ELSE @ \cup {p}])

\* A plausible slip: "popped" is emitted for the root page, which stays.
view_pop_signals_root(b) ==
    IF b.view.stack = <<>>
    THEN b
    ELSE IF Len(b.view.stack) < 2
         THEN popped(b, Last(b.view.stack))
         ELSE popped([b EXCEPT !.view.stack = Front(@)], Last(b.view.stack))

\* AdwNavigationView.pop(), what going back runs: does nothing when the stack
\* holds fewer than two pages, else takes the visible page off and emits
\* "popped" with it.
view_pop(b) ==
    IF Len(b.view.stack) < 2
    THEN b
    ELSE LET p == Last(b.view.stack) IN
         popped([b EXCEPT
                   !.view.stack = Front(@),
                   !.view.children =
                       IF p \in b.view.remove_on_pop THEN @ \ {p} ELSE @,
                   !.view.remove_on_pop = @ \ {p}],
                p)

\* A plausible slip: the oldest page of the buffer is offered, not the newest.
next_page_oldest(b) ==
    IF b.next_pages = <<>> THEN None ELSE Some(b.next_pages[1])

\* HypNavigationBin.__next_page, the handler of "get-next-page".
next_page_handler(b) ==
    IF b.next_pages = <<>> THEN None ELSE Some(Last(b.next_pages))

\* next_page = self.next_pages[-1] if self.next_pages else None
top_of_next_pages(b) ==
    IF b.next_pages # <<>> THEN Some(Last(b.next_pages)) ELSE None

\* Going forward: the view asks "get-next-page" for a page and pushes it.
go_forward(b) ==
    LET next_page == next_page_handler(b) IN
    IF next_page = None THEN b ELSE view_push(b, next_page[1])

(***************************************************************************)
(* HypNavigationBin.new_page.                                              *)
(***************************************************************************)
\* A plausible slip: the Gio.File objects are compared, not their URIs, and
\* the object of a call is never the one a page was made with.
same_gfile_objects(page, gfile) == FALSE

\* page.gfile and page.gfile.get_uri() == gfile.get_uri()
same_gfile(page, gfile) == page.gfile # None /\ page.gfile[1] = gfile[1]

\* A plausible slip: tag lists are compared as sets, whatever their order.
same_tags_unordered(page, tags) ==
    page.tags # None /\ Range(page.tags[1]) = Range(tags)

\* page.tags == tags, tags being a list
same_tags(page, tags) == page.tags = Some(tags)

\* page = HypItemsPage(...); self.view.add(page); self.view.push(page)
add_and_push(b, page) ==
    LET p == Len(b.items_pages) + 1
        b1 == [b EXCEPT !.items_pages = Append(@, page)]
    IN view_push(view_add(b1, p), p)

\* The gfile branch.
new_page_gfile(b, gfile) ==
    LET page == b.items_pages[get_visible_page(b)[1]]
        next_page == top_of_next_pages(b)
    IN IF same_gfile(page, gfile)
       THEN b
       ELSE IF next_page # None /\ same_gfile(b.items_pages[next_page[1]], gfile)
            THEN view_push(b, next_page[1])
            ELSE add_and_push(b, HypItemsPage(gfile, None))

\* The tags branch; tags is the list made of the argument.
new_page_tags(b, tags) ==
    LET page == b.items_pages[get_visible_page(b)[1]]
        next_page == top_of_next_pages(b)
    IN IF same_tags(page, tags)
       THEN b
       ELSE IF next_page # None /\ same_tags(b.items_pages[next_page[1]], tags)
            THEN view_push(b, next_page[1])
            ELSE add_and_push(b, HypItemsPage(None, Some(tags)))

\* A plausible slip: the visible page's list is appended to, not a copy.
new_page_tag_aliasing(b, tag) ==
    LET visible == get_visible_page(b)[1]
        page == b.items_pages[visible]
        next_page == top_of_next_pages(b)
        tags == IF ListTruthy(page.tags) THEN Append(page.tags[1], tag) ELSE <<tag>>
        b1 == IF ListTruthy(page.tags)
              THEN [b EXCEPT !.items_pages[visible].tags = Some(tags)]
              ELSE b
    IN IF ListTruthy(page.tags) /\ tag \in Range(page.tags[1])
       THEN b
       ELSE IF next_page # None /\ same_tags(b.items_pages[next_page[1]], tags)
            THEN view_push(b1, next_page[1])
            ELSE add_and_push(b1, HypItemsPage(None, Some(tags)))

\* The tag branch: the visible page's tags and one more.
new_page_tag(b, tag) ==
    LET page == b.items_pages[get_visible_page(b)[1]]
        next_page == top_of_next_pages(b)
        tags == IF ListTruthy(page.tags) THEN Append(page.tags[1], tag) ELSE <<tag>>
    IN IF ListTruthy(page.tags) /\ tag \in Range(page.tags[1])
       THEN b
       ELSE IF next_page # None /\ same_tags(b.items_pages[next_page[1]], tags)
            THEN view_push(b, next_page[1])
            ELSE add_and_push(b, HypItemsPage(None, Some(tags)))

\* A plausible slip: a call without a target opens the first known file.
new_page_default(b, gfile, tag, tags) ==
    IF gfile # None THEN new_page_gfile(b, gfile)
    ELSE IF ListTruthy(tags) THEN new_page_tags(b, tags[1])
    ELSE IF StrTruthy(tag) THEN new_page_tag(b, tag[1])
    ELSE add_and_push(b, HypItemsPage(Some("file:///a"), None))

\* new_page(gfile, tag, tags): gfile wins over tags, tags over tag.
new_page(b, gfile, tag, tags) ==
    IF gfile # None THEN new_page_gfile(b, gfile)
    ELSE IF ListTruthy(tags) THEN new_page_tags(b, tags[1])
    ELSE IF StrTruthy(tag) THEN new_page_tag(b, tag[1])
    ELSE b

(***************************************************************************)
(* History variables of the navigation surface.                            *)
(***************************************************************************)
OtherPhase == [name |-> "other", backs |-> 0]

NoTrip == [base |-> <<>>, backs |-> 0, fwds |-> 0, ok |-> FALSE]

\* A round trip starts over whenever the forward buffer is empty.
TripNow ==
    IF next_pages = <<>>
    THEN [base |-> view.stack, backs |-> 0, fwds |-> 0, ok |-> TRUE]
    ELSE nav_trip

\* The page the last operation popped, if it was a go_back that popped one.
JustPopped ==
    IF nav_op.name = "go_back" /\ Len(nav_pre.view.stack) >= 2
    THEN Some(Last(nav_pre.view.stack))
    ELSE None

SetBin(b) ==
    /\ items_pages' = b.items_pages
    /\ view' = b.view
    /\ next_pages' = b.next_pages
    /\ nav_pre' = [items_pages |-> items_pages, view |-> view,
                   next_pages |-> next_pages, popped |-> JustPopped]

(***************************************************************************)
(* The initial state and the operations.                                   *)
(***************************************************************************)
\* self.view = Adw.NavigationView()
EmptyView == [stack |-> <<>>, children |-> {}, remove_on_pop |-> {}]

\* HypNavigationBin.__init__: a bin is made for a file or for a tag list, the
\* root of its history (new_page reads the visible page without looking
\* whether there is one).
NavInitFor(args) ==
      LET initial_gfile == args[1]
          initial_tags == args[2]
      IN
        /\ items_pages =
               IF initial_gfile # None
               THEN <<HypItemsPage(initial_gfile, None)>>
               ELSE <<HypItemsPage(None, Some(initial_tags[1]))>>
        /\ view = view_add([view |-> EmptyView], 1).view
        /\ next_pages = <<>>
        /\ nav_op = [name |-> "init", gfile |-> initial_gfile, tag |-> None,
                     tags |-> initial_tags]
        /\ nav_pre = [items_pages |-> <<>>, view |-> EmptyView,
                      next_pages |-> <<>>, popped |-> None]
        /\ nav_phase = [name |-> "pushes", backs |-> 0]
        /\ nav_trip = NoTrip

NavInit == \E args \in InitArgs : NavInitFor(args)

\* Navigating to a file, a tag list or one more tag.
NewPage(gfile, tag, tags) ==
    \E b \in {new_page(Bin, gfile, tag, tags)} :
    /\ Len(b.items_pages) <= MaxPages
    /\ SetBin(b)
    /\ nav_op' = [name |-> "new_page", gfile |-> gfile, tag |-> tag, tags |-> tags]
    /\ nav_phase' = IF nav_phase.name = "pushes" THEN nav_phase ELSE OtherPhase
    /\ nav_trip' = NoTrip
    /\ UNCHANGED nav_rest

\* Going back: the view pops its visible page.
GoBack ==
    /\ \E b \in {view_pop(Bin)} : SetBin(b)
    /\ nav_op' = [name |-> "go_back", gfile |-> None, tag |-> None, tags |-> None]
    /\ nav_phase' = IF /\ nav_phase.name \in {"pushes", "backs"}
                       /\ nav_phase.backs + 1 < Len(items_pages)
                    THEN [name |-> "backs", backs |-> nav_phase.backs + 1]
                    ELSE OtherPhase
    /\ nav_trip' = IF TripNow.ok /\ TripNow.fwds = 0 /\ Len(view.stack) >= 2
                   THEN [TripNow EXCEPT !.backs = @ + 1]
                   ELSE NoTrip
    /\ UNCHANGED nav_rest

\* Going forward: the view asks for the next page and pushes what it gets.
GoForward ==
    /\ \E b \in {go_forward(Bin)} : SetBin(b)
    /\ nav_op' = [name |-> "go_forward", gfile |-> None, tag |-> None, tags |-> None]
    /\ nav_phase' = OtherPhase
    /\ nav_trip' = IF TripNow.ok /\ TripNow.fwds < TripNow.backs
                   THEN [TripNow EXCEPT !.fwds = @ + 1]
                   ELSE NoTrip
    /\ UNCHANGED nav_rest

NavNext ==
    \/ \E args \in NewPageArgs : NewPage(args[1], args[2], args[3])
    \/ GoBack
    \/ GoForward

(***************************************************************************)
(* The inputs of the path bar.                                             *)
(***************************************************************************)
\* A Gio.File, by what update reads from it: the scheme and the path of its
\* URI, and, for a file that is not local, which of the scheme root's
\* query_info and find_enclosing_mount succeed.
File(scheme, path, root_ok, mount_ok) ==
    [scheme |-> scheme, path |-> path, root_ok |-> root_ok, mount_ok |-> mount_ok]

LocalFile(path) == File("file", path, FALSE, FALSE)

\* The files the bar is updated with.
BarFiles ==
    {LocalFile(<<>>),
     LocalFile(<<"x">>),
     LocalFile(<<"home">>),
     LocalFile(<<"home", "a">>),
     LocalFile(<<"home", "a", "b">>),
     LocalFile(<<"home", "a", "c">>),
     File("sftp", <<"a">>, TRUE, TRUE),
     File("sftp", <<"a">>, FALSE, TRUE),
     File("sftp", <<"a">>, FALSE, FALSE),
     File("sftp", <<"a", "b">>, FALSE, FALSE),
     File("sftp", <<>>, FALSE, FALSE)}

\* The calls of update(gfile, tags): with a file, with a tag list, with
\* both, and with neither.
UpdateArgs ==
    {<<Some(f), None>> : f \in BarFiles}
    \cup {<<None, Some(ts)>> : ts \in TagLists}
    \cup {<<None, None>>,
          <<Some(LocalFile(<<"x">>)), Some(<<"x">>)>>}

\* The calls of append(label, icon_name, uri, tag): a segment that opens a
\* file and one that opens a tag.
AppendArgs ==
    {<<Some("n"), None, Some("file:///n"), None>>,
     <<Some("x"), Some(""), None, Some("x")>>}

(***************************************************************************)
(* HypPathBar.                                                             *)
(***************************************************************************)
\* shared.home_path, as the components below the root, and shared.home's URI.
HomePath == <<"home">>

HomeUri == "file:///home"

\* The state of a bar, as one value the methods transform; error is the
\* exception a method has raised, if any.
Bar ==
    [path_segments |-> path_segments, segments |-> segments,
     separators |-> separators, tags |-> bar_tags, segments_box |-> segments_box,
     timeouts |-> timeouts, error |-> None]

\* HypPathSegment(label, icon_name, uri, tag): a segment is not active when
\* it is made.
HypPathSegment(label, icon_name, uri, tag) ==
    [label |-> label, icon_name |-> icon_name, uri |-> uri, tag |-> tag,
     active |-> FALSE]

\* GLib.timeout_add(duration, self.__remove_child, self.segments_box, child);
\* all revealers have the same transition duration, so the calls run in the
\* order they were scheduled.
timeout_add(bar, child) == [bar EXCEPT !.timeouts = Append(@, child)]

\* del d[k], for a dict d.
DictPop(d, k) == [j \in DOMAIN d \ {k} |-> d[j]]

\* d[k] = v, for a dict d.
DictSet(d, k, v) == [j \in DOMAIN d \cup {k} |-> IF j = k THEN v ELSE d[j]]

\* A plausible slip: the segment before the last is left as it was.
mark_last_only(bar) ==
    IF bar.segments = <<>>
    THEN bar
    ELSE [bar EXCEPT !.path_segments[Last(bar.segments)].active = TRUE]

\* The end of remove and of append, in path mode: the last segment becomes
\* active and the one before it inactive; an IndexError ends it.
mark_last_active(bar) ==
    IF bar.segments = <<>>
    THEN bar
    ELSE LET b1 == [bar EXCEPT !.path_segments[Last(bar.segments)].active = TRUE]
         IN IF Len(bar.segments) < 2
            THEN b1
            ELSE [b1 EXCEPT
                    !.path_segments[bar.segments[Len(bar.segments) - 1]].active = FALSE]

RECURSIVE remove_loop(_, _)
\* The loop of remove: the bar after it, and whether the method returned
\* from inside the loop (or raised).
remove_loop(bar, n) ==
    IF n = 0
    THEN [bar |-> bar, returned |-> FALSE]
    ELSE IF bar.segments = <<>>
    THEN [bar |-> [bar EXCEPT !.error = Some("IndexError")], returned |-> TRUE]
    ELSE LET child == Last(bar.segments)
             b1 == timeout_add([bar EXCEPT !.segments = Front(@)], child)
             separator == b1.separators[child]
         IN IF separator = None
            THEN [bar |-> b1, returned |-> TRUE]
            ELSE remove_loop(
                     [timeout_add(b1, separator[1]) EXCEPT
                         !.separators = DictPop(@, child)],
                     n - 1)

\* HypPathBar.remove(n).
remove(bar, n) ==
    LET r == remove_loop(bar, n) IN
    IF r.returned \/ r.bar.tags THEN r.bar ELSE mark_last_active(r.bar)

\* HypPathBar.append(label, icon_name, uri, tag); seg is the tuple of the
\* four arguments.  (The scroll it schedules changes nothing here.)
append(bar, seg) ==
    LET n == Len(bar.path_segments) + 1
        separator == IF bar.segments # <<>> THEN Some(-n) ELSE None
        b1 == [bar EXCEPT
                 !.path_segments =
                     Append(@, HypPathSegment(seg[1], seg[2], seg[3], seg[4])),
                 !.segments_box =
                     IF separator # None THEN @ \o <<-n, n>> ELSE Append(@, n),
                 !.separators = DictSet(@, n, separator),
                 !.segments = Append(@, n)]
    IN IF b1.tags THEN b1 ELSE mark_last_active(b1)

\* A plausible slip: the lists are reset but the box keeps its children.
purge_lists_only(bar) ==
    [bar EXCEPT !.segments = <<>>, !.separators = <<>>]

\* HypPathBar.purge().
purge(bar) ==
    [bar EXCEPT !.segments_box = <<>>, !.segments = <<>>, !.separators = <<>>]

RECURSIVE Join(_)
\* sep.join(parts)
Join(parts) ==
    IF parts = <<>> THEN ""
    ELSE IF Len(parts) = 1 THEN parts[1]
    ELSE parts[1] \o "/" \o Join(Tail(parts))

\* str(x), for an Optional string x.
Str(x) == IF x = None THEN "None" ELSE x[1]

\* unquote(parse.path).split(sep): the path of the root is "/".
path_parts(gfile) ==
    IF gfile.path = <<>> THEN <<"", "">> ELSE <<"">> \o gfile.path

\* A plausible slip: when both queries fail, a blank base at the scheme root.
remote_base_blank(gfile) ==
    IF gfile.root_ok
    THEN <<Some(gfile.scheme), Some("folder-remote-symbolic"),
           Some(gfile.scheme \o "://")>>
    ELSE IF gfile.mount_ok
    THEN <<Some("mount"), Some("drive-harddisk-symbolic"),
           Some(gfile.scheme \o "://host/")>>
    ELSE <<Some(""), None, Some(gfile.scheme \o "://")>>

\* The base of a file that is not local: name, icon and URI of the scheme
\* root, else those of the enclosing mount, else None.
remote_base(gfile) ==
    IF gfile.root_ok
    THEN <<Some(gfile.scheme), Some("folder-remote-symbolic"),
           Some(gfile.scheme \o "://")>>
    ELSE IF gfile.mount_ok
    THEN <<Some("mount"), Some("drive-harddisk-symbolic"),
           Some(gfile.scheme \o "://host/")>>
    ELSE <<None, None, None>>

\* Whether update logs an error: the scheme root's query_info and
\* find_enclosing_mount both raise GLib.Error.
logs_error(gfile) == gfile.scheme # "file" /\ ~gfile.root_ok /\ ~gfile.mount_ok

\* The segments of the path's components, each with the URI of the path up to
\* it, the base's URI in front.
part_segments(parts, base_uri) ==
    LET indexes == {i \in 1..Len(parts) : parts[i] # ""}
        nth(k) == CHOOSE i \in indexes : Cardinality({j \in indexes : j < i}) = k - 1
    IN [k \in 1..Cardinality(indexes) |->
           <<Some(parts[nth(k)]), Some(""),
             Some(Str(base_uri) \o Join(SubSeq(parts, 1, nth(k)))), None>>]

\* Whether the file's path is shared.home_path or below it.
under_home(gfile) ==
    /\ gfile.scheme = "file"
    /\ Len(gfile.path) >= Len(HomePath)
    /\ SubSeq(gfile.path, 1, Len(HomePath)) = HomePath

\* update, the gfile branch: the segments of a file.
file_segments(gfile) ==
    LET base == IF gfile.scheme = "file"
                THEN <<None, None, Some("file://")>>
                ELSE remote_base(gfile)
        all == part_segments(path_parts(gfile), base[3])
    IN IF under_home(gfile)
       THEN << <<Some("Home"), Some("user-home-symbolic"), Some(HomeUri), None>> >>
                \o SubSeq(all, Len(HomePath) + 1, Len(all))
       ELSE IF gfile.scheme = "file"
       THEN << <<Some(""), Some("drive-harddisk-symbolic"), Some("file:///"), None>> >>
                \o all
       ELSE IF base[3] # None
       THEN << <<base[1], base[2], base[3], None>> >> \o all
       ELSE all

\* update, the tags branch: the segments of a tag list.
tag_segments(ts) == [i \in 1..Len(ts) |-> <<Some(ts[i]), Some(""), None, Some(ts[i])>>]

RECURSIVE update_loop(_, _, _, _)
\* The loop of update over the new segments, from the one at index on;
\* appending says whether the loop has begun to append.
update_loop(bar, new_segments, index, appending) ==
    IF index > Len(new_segments) \/ bar.error # None
    THEN bar
    ELSE LET new_segment == new_segments[index]
             old_segment == IF index <= Len(bar.segments)
                            THEN Some(bar.path_segments[bar.segments[index]])
                            ELSE None
         IN IF /\ ~appending
               /\ old_segment # None
               /\ new_segment[3] = old_segment[1].uri
               /\ new_segment[4] = old_segment[1].tag
            THEN update_loop(bar, new_segments, index + 1, appending)
            ELSE LET b1 == IF ~appending
                           THEN remove(bar, Len(bar.segments) - (index - 1))
                           ELSE bar
                 IN IF b1.error # None
                    THEN b1
                    ELSE update_loop(append(b1, new_segment), new_segments,
                                     index + 1, TRUE)

\* A plausible slip: every old segment is taken off before the new ones go on.
show_rebuilding(bar, new_segments) ==
    update_loop(remove(bar, Len(bar.segments)), new_segments, 1, TRUE)

\* The end of update: the surplus of old segments is removed, then the loop.
show(bar, new_segments) ==
    LET old_len == Len(bar.segments)
        new_len == Len(new_segments)
        b1 == IF old_len > new_len THEN remove(bar, old_len - new_len) ELSE bar
    IN update_loop(b1, new_segments, 1, FALSE)

\* HypPathBar.update(gfile, tags); without a file and without tags, segments
\* is read before it is assigned.
update(bar, gfile, tags_arg) ==
    IF gfile # None
    THEN show([(IF bar.tags THEN purge(bar) ELSE bar) EXCEPT !.tags = FALSE],
              file_segments(gfile[1]))
    ELSE IF ListTruthy(tags_arg)
    THEN show([(IF ~bar.tags THEN purge(bar) ELSE bar) EXCEPT !.tags = TRUE],
              tag_segments(tags_arg[1]))
    ELSE [bar EXCEPT !.error = Some("UnboundLocalError")]

\* child.get_parent == parent: a bound method is compared with a widget.
parent_is(bar, child) == FALSE

\* HypPathBar.__remove_child(parent, child), run by a timeout.
remove_child(bar, child) ==
    IF parent_is(bar, child)
    THEN [bar EXCEPT !.segments_box = SelectSeq(@, LAMBDA w : w # child)]
    ELSE bar

SetBar(b) ==
    /\ path_segments' = b.path_segments
    /\ segments' = b.segments
    /\ separators' = b.separators
    /\ bar_tags' = b.tags
    /\ segments_box' = b.segments_box
    /\ timeouts' = b.timeouts
    /\ bar_pre' = Bar
    /\ bar_ops' = bar_ops + 1

\* HypPathBar.__init__.
BarInit ==
    /\ path_segments = <<>>
    /\ segments = <<>>
    /\ separators = <<>>
    /\ bar_tags = FALSE
    /\ segments_box = <<>>
    /\ timeouts = <<>>
    /\ bar_op = [name |-> "init", gfile |-> None, tags |-> None, n |-> 0,
                 error |-> None, logged |-> FALSE]
    /\ bar_pre = [path_segments |-> <<>>, segments |-> <<>>, separators |-> <<>>,
                  tags |-> FALSE, segments_box |-> <<>>, timeouts |-> <<>>,
                  error |-> None]
    /\ bar_ops = 0

\* The window shows a new location in the bar.
Update(gfile, tags_arg) ==
    /\ bar_ops < MaxBarOps
    /\ \E b \in {update(Bar, gfile, tags_arg)} :
           /\ SetBar(b)
           /\ bar_op' = [name |-> "update", gfile |-> gfile, tags |-> tags_arg,
                         n |-> 0, error |-> b.error,
                         logged |-> gfile # None /\ logs_error(gfile[1])]
    /\ UNCHANGED bar_rest

\* The oldest pending timeout runs.
Timeout ==
    /\ bar_ops < MaxBarOps
    /\ timeouts # <<>>
    /\ \E b \in {remove_child([Bar EXCEPT !.timeouts = Tail(@)], Head(timeouts))} :
           SetBar(b)
    /\ bar_op' = [name |-> "timeout", gfile |-> None, tags |-> None, n |-> 0,
                  error |-> None, logged |-> FALSE]
    /\ UNCHANGED bar_rest

\* remove(n) is called; with nothing displayed and n > 0 it raises.
Remove(n) ==
    /\ bar_ops < MaxBarOps
    /\ n <= Len(segments) + 1
    /\ \E b \in {remove(Bar, n)} :
           /\ SetBar(b)
           /\ bar_op' = [name |-> "remove", gfile |-> None, tags |-> None,
                         n |-> n, error |-> b.error, logged |-> FALSE]
    /\ UNCHANGED bar_rest

\* append(label, icon_name, uri, tag) is called.
AppendSegment(seg) ==
    /\ bar_ops < MaxBarOps
    /\ SetBar(append(Bar, seg))
    /\ bar_op' = [name |-> "append", gfile |-> None, tags |-> None, n |-> 0,
                  error |-> None, logged |-> FALSE]
    /\ UNCHANGED bar_rest

\* purge() is called.
Purge ==
    /\ bar_ops < MaxBarOps
    /\ SetBar(purge(Bar))
    /\ bar_op' = [name |-> "purge", gfile |-> None, tags |-> None, n |-> 0,
                  error |-> None, logged |-> FALSE]
    /\ UNCHANGED bar_rest

BarNext ==
    \/ \E args \in UpdateArgs : Update(args[1], args[2])
    \/ Timeout
    \/ \E n \in 0..MaxRemove : Remove(n)
    \/ \E seg \in AppendArgs : AppendSegment(seg)
    \/ Purge

(***************************************************************************)
(* The tag registry (utils/tags.py).                                       *)
(***************************************************************************)
\* The tags the registry is called with.
RegistryTags == {"x", "y", "z"}

\* The lists shared.tags is loaded with at startup.
RegistryInits == {<<>>, <<"x">>, <<"y", "x">>, <<"x", "y", "z">>}

\* The calls of add_tags(*tags), of remove_tags(*tags) and of
\* move_tag(tag, up).
AddTagsArgs == {<<>>, <<"x">>, <<"y">>, <<"z", "x">>}

RemoveTagsArgs == {<<>>, <<"x">>, <<"y", "z">>, <<"x", "x">>}

MoveTagArgs == RegistryTags \X BOOLEAN

RECURSIVE JoinLines(_)
\* "\n".join(tags)
JoinLines(tags) ==
    IF tags = <<>> THEN ""
    ELSE IF Len(tags) = 1 THEN tags[1]
    ELSE tags[1] \o "\n" \o JoinLines(Tail(tags))

\* The registry, as one value the functions transform; log is what the call
\* has written and emitted so far, error the exception it has raised.
Registry ==
    [tags |-> shared_tags, file |-> tag_file, log |-> <<>>, error |-> None]

\* A plausible slip: the text is added to the file instead of replacing it.
update_tags_appending(reg, change) ==
    [reg EXCEPT
        !.file = @ \o JoinLines(reg.tags),
        !.log = @ \o << <<"write", JoinLines(reg.tags)>>, <<"emit", change>> >>]

\* update_tags(change): write_text replaces the file's content, then the
\* postmaster emits "tags-changed".
update_tags(reg, change) ==
    [reg EXCEPT
        !.file = JoinLines(reg.tags),
        !.log = @ \o << <<"write", JoinLines(reg.tags)>>, <<"emit", change>> >>]

\* x in list
In(x, list) == \E i \in 1..Len(list) : list[i] = x

\* list.index(x), from 1; x is in the list.
Index(list, x) == CHOOSE i \in 1..Len(list) : list[i] = x /\ \A j \in 1..(i - 1) : list[j] # x

\* list.remove(x); x is in the list.
ListRemove(list, x) ==
    SubSeq(list, 1, Index(list, x) - 1) \o SubSeq(list, Index(list, x) + 1, Len(list))

\* A plausible slip: the change is left at update_tags' default.
add_tags_default_change(reg, tags) ==
    update_tags([reg EXCEPT !.tags = @ \o tags], "DIFFERENT")

\* add_tags(*tags).
add_tags(reg, tags) ==
    update_tags([reg EXCEPT !.tags = @ \o tags], "MORE_STRICT")

RECURSIVE remove_tags_loop(_, _)
\* The loop of remove_tags.
remove_tags_loop(list, tags) ==
    IF tags = <<>>
    THEN list
    ELSE remove_tags_loop(
             IF In(Head(tags), list) THEN ListRemove(list, Head(tags)) ELSE list,
             Tail(tags))

\* remove_tags(*tags).
remove_tags(reg, tags) ==
    update_tags([reg EXCEPT !.tags = remove_tags_loop(@, tags)], "LESS_STRICT")

\* list[i], list[j] = list[j], list[i]
Swap(list, i, j) == [list EXCEPT ![i] = list[j], ![j] = list[i]]

\* A plausible slip: at the boundary the list is written and announced all
\* the same.
move_tag_always_updates(reg, tag, up) ==
    IF reg.tags = <<>>
    THEN [reg EXCEPT !.error = Some("IndexError")]
    ELSE IF (IF up THEN reg.tags[1] ELSE Last(reg.tags)) = tag
    THEN update_tags(reg, "DIFFERENT")
    ELSE IF ~In(tag, reg.tags)
    THEN [reg EXCEPT !.error = Some("ValueError")]
    ELSE LET index == Index(reg.tags, tag)
         IN update_tags(
                [reg EXCEPT
                    !.tags = Swap(@, index, IF up THEN index - 1 ELSE index + 1)],
                "DIFFERENT")

\* A plausible slip: the tag goes all the way to the front or to the end.
move_tag_to_end(reg, tag, up) ==
    IF reg.tags = <<>>
    THEN [reg EXCEPT !.error = Some("IndexError")]
    ELSE IF (IF up THEN reg.tags[1] ELSE Last(reg.tags)) = tag
    THEN reg
    ELSE IF ~In(tag, reg.tags)
    THEN [reg EXCEPT !.error = Some("ValueError")]
    ELSE update_tags(
             [reg EXCEPT
                 !.tags = IF up
                          THEN <<tag>> \o ListRemove(@, tag)
                          ELSE Append(ListRemove(@, tag), tag)],
             "DIFFERENT")

\* move_tag(tag, up): shared.tags[0] and shared.tags[-1] raise IndexError on
\* an empty list, index raises ValueError for a tag that is not in it.
move_tag(reg, tag, up) ==
    IF reg.tags = <<>>
    THEN [reg EXCEPT !.error = Some("IndexError")]
    ELSE IF (IF up THEN reg.tags[1] ELSE Last(reg.tags)) = tag
    THEN reg
    ELSE IF ~In(tag, reg.tags)
    THEN [reg EXCEPT !.error = Some("ValueError")]
    ELSE LET index == Index(reg.tags, tag)
         IN update_tags(
                [reg EXCEPT
                    !.tags = Swap(@, index, IF up THEN index - 1 ELSE index + 1)],
                "DIFFERENT")

SetRegistry(reg) ==
    /\ shared_tags' = reg.tags
    /\ tag_file' = reg.file
    /\ tag_log' = reg.log
    /\ tag_pre' = [tags |-> shared_tags, file |-> tag_file]
    /\ tag_ops' = tag_ops + 1

\* The registry at startup, loaded with the list ts: the file holds the list.
TagsInitFor(ts) ==
    /\ shared_tags = ts
    /\ tag_file = JoinLines(ts)
    /\ tag_log = <<>>
    /\ tag_op = [name |-> "init", tags |-> <<>>, tag |-> "", up |-> FALSE,
                 error |-> None]
    /\ tag_pre = [tags |-> ts, file |-> JoinLines(ts)]
    /\ tag_ops = 0

TagsInit == \E ts \in RegistryInits : TagsInitFor(ts)

AddTags(tags) ==
    /\ tag_ops < MaxTagOps
    /\ SetRegistry(add_tags(Registry, tags))
    /\ tag_op' = [name |-> "add_tags", tags |-> tags, tag |-> "", up |-> FALSE,
                  error |-> None]
    /\ UNCHANGED tag_rest

RemoveTags(tags) ==
    /\ tag_ops < MaxTagOps
    /\ SetRegistry(remove_tags(Registry, tags))
    /\ tag_op' = [name |-> "remove_tags", tags |-> tags, tag |-> "",
                  up |-> FALSE, error |-> None]
    /\ UNCHANGED tag_rest

MoveTag(tag, up) ==
    /\ tag_ops < MaxTagOps
    /\ \E reg \in {move_tag(Registry, tag, up)} :
           /\ SetRegistry(reg)
           /\ tag_op' = [name |-> "move_tag", tags |-> <<>>, tag |-> tag,
                         up |-> up, error |-> reg.error]
    /\ UNCHANGED tag_rest

TagsNext ==
    \/ \E tags \in AddTagsArgs : AddTags(tags)
    \/ \E tags \in RemoveTagsArgs : RemoveTags(tags)
    \/ \E args \in MoveTagArgs : MoveTag(args[1], args[2])

(***************************************************************************)
(* The trash action (main.py).                                             *)
(***************************************************************************)
\* The files of the folder the visible page shows, and the tags it shows.
FolderFiles == {"a", "b", "c"}

FolderTags == {"x"}

\* The children of the flow box, as the action sees them: a HypItem has a
\* gfile and a path, a HypTag has a name.
HypItem(name) == [kind |-> "item", name |-> name]

HypTag(name) == [kind |-> "tag", name |-> name]

\* get_selected_children(): up to MaxSelected different children, of the
\* files shown and the tags, in any order.
Selections(files) ==
    LET children == {HypItem(f) : f \in files} \cup {HypTag(t) : t \in FolderTags}
    IN {sel \in SeqsUpTo(children, MaxSelected) :
           \A i, j \in 1..Len(sel) : i # j => sel[i] # sel[j]}

RECURSIVE trash_loop(_, _, _)
\* The loop over the selected children: run is the calls of trash(), the
\* files trashed (n is their number), the calls of items_page.update() and
\* the loop variable child; fails is the files whose trash() raises
\* GLib.GError.
trash_loop(run, sel, fails) ==
    IF sel = <<>>
    THEN run
    ELSE LET child == Head(sel)
             r1 == [run EXCEPT !.child = Some(child)]
         IN IF child.kind # "item"
            THEN trash_loop(r1, Tail(sel), fails)
            ELSE IF child.name \in fails
            THEN trash_loop([r1 EXCEPT !.calls = Append(@, child.name)],
                            Tail(sel), fails)
            ELSE trash_loop([r1 EXCEPT !.calls = Append(@, child.name),
                                       !.done = @ \cup {child.name},
                                       !.updates = @ + 1,
                                       !.n = @ + 1],
                            Tail(sel), fails)

\* A plausible slip: the first failure ends the loop.
trash_children_aborting(sel, fails) ==
    LET failing == {i \in 1..Len(sel) : sel[i].kind = "item" /\ sel[i].name \in fails}
        stop == IF failing = {} THEN Len(sel)
                ELSE CHOOSE i \in failing : \A j \in failing : i <= j
    IN trash_loop([calls |-> <<>>, done |-> {}, updates |-> 0, n |-> 0,
                   child |-> None],
                  SubSeq(sel, 1, stop), fails)

\* The loop of __on_trash_action, from n = 0.
trash_children(sel, fails) ==
    trash_loop([calls |-> <<>>, done |-> {}, updates |-> 0, n |-> 0,
                child |-> None],
               sel, fails)

\* The end of __on_trash_action: the toast, from n and from the child the
\* loop ended on; tag_has_path is whether a HypTag has a path attribute.
trash_message(run, tag_has_path) ==
    IF run.n = 0
    THEN [toast |-> None, error |-> None]
    ELSE IF run.n > 1
    THEN [toast |-> Some([kind |-> "count", n |-> run.n, name |-> ""]),
          error |-> None]
    ELSE IF run.child[1].kind = "tag" /\ ~tag_has_path
    THEN [toast |-> None, error |-> Some("AttributeError")]
    ELSE [toast |-> Some([kind |-> "name", n |-> 0, name |-> run.child[1].name]),
          error |-> None]

\* The folder before any run of the action.
TrashInit ==
    /\ folder = FolderFiles
    /\ trash_op = [name |-> "init", sel |-> <<>>, fails |-> {},
                   tag_has_path |-> FALSE]
    /\ trash_calls = <<>>
    /\ trash_done = {}
    /\ trash_updates = 0
    /\ trash_toast = None
    /\ trash_error = None
    /\ trash_ops = 0

\* HypApplication.__on_trash_action, on the selection sel.
OnTrashAction(sel, fails, tag_has_path) ==
    /\ trash_ops < MaxTrashOps
    /\ sel \in Selections(folder)
    /\ fails \subseteq
           {sel[i].name : i \in {k \in 1..Len(sel) : sel[k].kind = "item"}}
    /\ \E run \in {trash_children(sel, fails)} :
           /\ folder' = folder \ run.done
           /\ trash_calls' = run.calls
           /\ trash_done' = run.done
           /\ trash_updates' = run.updates
           /\ trash_toast' = trash_message(run, tag_has_path).toast
           /\ trash_error' = trash_message(run, tag_has_path).error
    /\ trash_op' = [name |-> "trash", sel |-> sel, fails |-> fails,
                    tag_has_path |-> tag_has_path]
    /\ trash_ops' = trash_ops + 1
    /\ UNCHANGED trash_rest

TrashNext ==
    \E sel \in Selections(FolderFiles), fails \in SUBSET FolderFiles,
       tag_has_path \in BOOLEAN :
        OnTrashAction(sel, fails, tag_has_path)

(***************************************************************************)
(* The specifications.                                                     *)
(***************************************************************************)
Init == NavInit /\ BarInit /\ TagsInit /\ TrashInit

Next ==
    \/ \E args \in NewPageArgs : NewPage(args[1], args[2], args[3])
    \/ GoBack
    \/ GoForward
    \/ \E args \in UpdateArgs : Update(args[1], args[2])
    \/ Timeout
    \/ \E n \in 0..MaxRemove : Remove(n)
    \/ \E seg \in AppendArgs : AppendSegment(seg)
    \/ Purge
    \/ \E tags \in AddTagsArgs : AddTags(tags)
    \/ \E tags \in RemoveTagsArgs : RemoveTags(tags)
    \/ \E args \in MoveTagArgs : MoveTag(args[1], args[2])
    \/ TrashNext

\* The application: one navigation surface, the path bar, the tag registry
\* and the trash action.
Spec == Init /\ [][Next]_vars

\* The navigation surface on its own.
NavSpecInit == NavInit /\ BarInit /\ TagsInitFor(<<"x">>) /\ TrashInit

SpecNav == NavSpecInit /\ [][NavNext]_vars

\* A bar beside a surface opened on a file.
BarSpecInit ==
    /\ NavInitFor(<<Some("file:///a"), None>>) /\ BarInit
    /\ TagsInitFor(<<"x">>) /\ TrashInit

\* The path bar on its own.
SpecBar == BarSpecInit /\ [][BarNext]_vars

\* The tag registry beside a surface opened on a file.
TagsSpecInit ==
    NavInitFor(<<Some("file:///a"), None>>) /\ BarInit /\ TagsInit /\ TrashInit

\* The tag registry on its own.
SpecTags == TagsSpecInit /\ [][TagsNext]_vars

\* The trash action on its own.
TrashSpecInit ==
    /\ NavInitFor(<<Some("file:///a"), None>>) /\ BarInit
    /\ TagsInitFor(<<"x">>) /\ TrashInit

SpecTrash == TrashSpecInit /\ [][TrashNext]_vars

(***************************************************************************)
(* Properties of the navigation surface.                                   *)
(***************************************************************************)
\* The last operation was new_page.
WasNewPage == nav_op.name = "new_page"

\* The last new_page asked for a location: a file, or else a tag list.
AskedLocation == nav_op.gfile # None \/ ListTruthy(nav_op.tags)

\* A location, structurally: a URI string or an ordered tag list.
FileLocation(uri) == [kind |-> "file", uri |-> uri, tags |-> <<>>]

TagLocation(tags) == [kind |-> "tags", uri |-> "", tags |-> tags]

\* The location the last new_page asked for.
Asked ==
    IF nav_op.gfile # None
    THEN FileLocation(nav_op.gfile[1])
    ELSE TagLocation(nav_op.tags[1])

\* The location of the entry p.
LocationOf(p) ==
    LET page == items_pages[p] IN
    IF page.gfile # None
    THEN FileLocation(page.gfile[1])
    ELSE TagLocation(page.tags[1])

\* The visible entry and the top of the forward buffer before the operation.
PreVisible == Last(nav_pre.view.stack)

PreNextTop == Last(nav_pre.next_pages)

\* The last operation changed nothing and constructed nothing.
NavUnchanged ==
    /\ view = nav_pre.view
    /\ next_pages = nav_pre.next_pages
    /\ items_pages = nav_pre.items_pages

\* The last operation pushed the top of the forward buffer, and nothing else.
NavReused ==
    /\ nav_pre.next_pages # <<>>
    /\ view.stack = Append(nav_pre.view.stack, PreNextTop)
    /\ view.children = nav_pre.view.children
    /\ next_pages = Front(nav_pre.next_pages)
    /\ items_pages = nav_pre.items_pages

\* The last operation constructed one entry and pushed it.
NavPushedFresh ==
    /\ Len(items_pages) = Len(nav_pre.items_pages) + 1
    /\ SubSeq(items_pages, 1, Len(nav_pre.items_pages)) = nav_pre.items_pages
    /\ view.stack = Append(nav_pre.view.stack, Len(items_pages))

\* C1: new_page with a location equal to the visible entry's (same URI
\* string, or same ordered tag list) changes neither the history, nor the
\* visible entry, nor the forward buffer, and constructs no entry.
C1_SameLocationIsNoOp ==
    (WasNewPage /\ AskedLocation /\ Asked = LocationOf(PreVisible))
        => NavUnchanged

C1_Witness ==
    /\ WasNewPage /\ AskedLocation /\ Asked = LocationOf(PreVisible)
    /\ NavUnchanged
    /\ next_pages # <<>>
    /\ Len(view.stack) >= 2

\* C2: after go_back and then new_page with the location of the entry that
\* go_back popped, the entry pushed is that very entry, no entry is
\* constructed, and the entry has left the top of the forward buffer, the
\* rest of which is kept.
C2_BackThenSameLocationReuses ==
    (/\ WasNewPage /\ AskedLocation
     /\ nav_pre.popped # None
     /\ Asked = LocationOf(nav_pre.popped[1]))
        => /\ PreNextTop = nav_pre.popped[1]
           /\ view.stack = Append(nav_pre.view.stack, nav_pre.popped[1])
           /\ items_pages = nav_pre.items_pages
           /\ next_pages = Front(nav_pre.next_pages)
           /\ nav_pre.popped[1] \in view.children

C2_Witness ==
    /\ WasNewPage /\ AskedLocation
    /\ nav_pre.popped # None
    /\ Asked = LocationOf(nav_pre.popped[1])
    /\ Last(view.stack) = nav_pre.popped[1]
    /\ next_pages # <<>>

\* C3: when new_page pushes a location that differs from the visible entry's
\* and from that of the top of a non-empty forward buffer, then afterwards
\* the forward buffer is empty, every entry that was in it has been removed
\* from the view, and the new entry is the top of the history.
C3_DivergentPushClearsForward ==
    (/\ WasNewPage /\ AskedLocation
     /\ nav_pre.next_pages # <<>>
     /\ Asked # LocationOf(PreVisible)
     /\ Asked # LocationOf(PreNextTop))
        => /\ next_pages = <<>>
           /\ Range(nav_pre.next_pages) \cap view.children = {}
           /\ NavPushedFresh
           /\ LocationOf(Last(view.stack)) = Asked

C3_Witness ==
    /\ WasNewPage /\ AskedLocation
    /\ nav_pre.next_pages # <<>>
    /\ Asked # LocationOf(PreVisible)
    /\ Asked # LocationOf(PreNextTop)
    /\ next_pages = <<>>
    /\ Last(view.stack) = Len(items_pages)

\* C4: while only new_page has run, the history holds the N entries
\* constructed so far, in order; and go_back called N-1 times after that
\* makes the first entry visible, the other N-1 being in the forward buffer.
C4_PushesThenBacks ==
    LET N == Len(items_pages) IN
    /\ nav_phase.name = "pushes"
           => view.stack = [i \in 1..N |-> i] /\ next_pages = <<>>
    /\ nav_phase.name = "backs"
           => /\ Len(view.stack) = N - nav_phase.backs
              /\ nav_phase.backs = N - 1
                     => /\ view.stack = <<1>>
                        /\ Len(next_pages) = N - 1
                        /\ Range(next_pages) = 2..N

C4_Witness ==
    /\ nav_phase.name = "backs"
    /\ Len(items_pages) >= 3
    /\ nav_phase.backs = Len(items_pages) - 1
    /\ view.stack = <<1>>

\* C5: from an empty forward buffer, k go_back steps (k less than the length
\* of the history) followed by k go_forward steps restore the history, the
\* same entries in the same order, and leave the forward buffer empty; each
\* go_forward pushes the top of the forward buffer and takes exactly that
\* entry off it.
C5_BackForwardRoundTrip ==
    /\ (nav_trip.ok /\ nav_trip.backs > 0 /\ nav_trip.fwds = nav_trip.backs)
           => view.stack = nav_trip.base /\ next_pages = <<>>
    /\ (nav_op.name = "go_forward" /\ nav_pre.next_pages # <<>>)
           => NavReused

C5_Witness ==
    /\ nav_trip.ok /\ nav_trip.backs >= 2 /\ nav_trip.fwds = nav_trip.backs
    /\ nav_op.name = "go_forward"
    /\ view.stack = nav_trip.base

C7_StructuralEquality ==
    (WasNewPage /\ AskedLocation)
        => /\ NavUnchanged <=> (Asked = LocationOf(PreVisible))
           /\ NavReused <=> (/\ Asked # LocationOf(PreVisible)
                              /\ nav_pre.next_pages # <<>>
                              /\ Asked = LocationOf(PreNextTop))
           /\ NavPushedFresh <=> (/\ Asked # LocationOf(PreVisible)
                                   /\ (nav_pre.next_pages # <<>>
                                           => Asked # LocationOf(PreNextTop)))

\* The tag list asked for is the visible entry's in another order, and a
\* fresh entry was pushed.
C7_Witness ==
    /\ WasNewPage /\ AskedLocation
    /\ nav_op.gfile = None
    /\ LocationOf(PreVisible).kind = "tags"
    /\ Range(LocationOf(PreVisible).tags) = Range(Asked.tags)
    /\ NavPushedFresh

\* C8: new_page without a file, without a tag and without a non-empty tag
\* list changes nothing and constructs nothing.
C8_InvalidTargetIgnored ==
    (/\ WasNewPage
     /\ nav_op.gfile = None
     /\ ~StrTruthy(nav_op.tag)
     /\ ~ListTruthy(nav_op.tags))
        => NavUnchanged

C8_Witness ==
    /\ WasNewPage
    /\ nav_op.gfile = None
    /\ nav_op.tag = Some("")
    /\ nav_op.tags = Some(<<>>)
    /\ NavUnchanged
    /\ next_pages # <<>>

\* The last new_page was given a tag alone (no file, no tag list that
\* counts).
AskedTag ==
    /\ WasNewPage
    /\ nav_op.gfile = None
    /\ ~ListTruthy(nav_op.tags)
    /\ StrTruthy(nav_op.tag)

\* The tag list of the entry that was visible before the operation, empty
\* when it shows a file.
PreVisibleTags ==
    LET page == nav_pre.items_pages[PreVisible]
    IN IF ListTruthy(page.tags) THEN page.tags[1] ELSE <<>>

\* C22: new_page(tag=t) changes nothing when t is among the visible entry's
\* tags; otherwise its target is the visible entry's tag list with t at the
\* end ([t] when the entry has no tags), which is taken from the top of the
\* forward buffer when the entry there has that very list, and is else
\* pushed as a fresh entry; the entries there were keep their tag lists.
C22_SingleTagNavigation ==
    AskedTag
        => LET t == nav_op.tag[1]
               target == Append(PreVisibleTags, t)
           IN /\ SubSeq(items_pages, 1, Len(nav_pre.items_pages))
                     = nav_pre.items_pages
              /\ IF t \in Range(PreVisibleTags)
                 THEN NavUnchanged
                 ELSE IF /\ nav_pre.next_pages # <<>>
                         /\ nav_pre.items_pages[PreNextTop].tags = Some(target)
                 THEN NavReused
                 ELSE /\ NavPushedFresh
                      /\ Last(items_pages) = HypItemsPage(None, Some(target))
                      /\ next_pages = <<>>

\* A tag was added to a visible tag list and the entry for the longer list
\* came back from the forward buffer.
C22_Witness ==
    /\ AskedTag
    /\ PreVisibleTags # <<>>
    /\ nav_op.tag[1] \notin Range(PreVisibleTags)
    /\ NavReused
    /\ items_pages[Last(view.stack)].tags
           = Some(Append(PreVisibleTags, nav_op.tag[1]))

\* C24: no entry is on the history stack and in the forward buffer at once,
\* and no entry occurs twice in the forward buffer or on the stack.
C24_HistoryAndForwardDisjoint ==
    /\ Range(view.stack) \cap Range(next_pages) = {}
    /\ \A i, j \in 1..Len(next_pages) : i # j => next_pages[i] # next_pages[j]
    /\ \A i, j \in 1..Len(view.stack) : i # j => view.stack[i] # view.stack[j]

\* Going forward has taken one of two entries back from the forward buffer.
C24_Witness ==
    /\ nav_op.name = "go_forward"
    /\ Len(nav_pre.next_pages) = 2
    /\ Len(next_pages) = 1
    /\ Last(view.stack) = Last(nav_pre.next_pages)

(***************************************************************************)
(* Properties of the path bar.                                             *)
(***************************************************************************)
\* The last operation was an update with a file or a non-empty tag list.
WasUpdate ==
    /\ bar_op.name = "update"
    /\ bar_op.gfile # None \/ ListTruthy(bar_op.tags)

\* The mode the last update asked for: tags unless a file was given.
AskedTags == bar_op.gfile = None

\* The new segment list of the last update.
NewSegments ==
    IF bar_op.gfile # None
    THEN file_segments(bar_op.gfile[1])
    ELSE tag_segments(bar_op.tags[1])

\* The targets (URI and tag) of the new segment list, in order.
NewTargets == [i \in 1..Len(NewSegments) |-> <<NewSegments[i][3], NewSegments[i][4]>>]

\* The targets of the displayed segments ss of the bar b, in order.
TargetsOf(b, ss) ==
    [i \in 1..Len(ss) |-> <<b.path_segments[ss[i]].uri, b.path_segments[ss[i]].tag>>]

\* The length of the longest common prefix of two sequences.
CommonPrefix(a, b) ==
    LET m == IF Len(a) < Len(b) THEN Len(a) ELSE Len(b) IN
    CHOOSE p \in 0..m :
        /\ \A i \in 1..p : a[i] = b[i]
        /\ p < m => a[p + 1] # b[p + 1]

\* What the last operation scheduled for removal, in order.
NewTimeouts == SubSeq(timeouts, Len(bar_pre.timeouts) + 1, Len(timeouts))

IsSegment(w) == w > 0

\* C9: within one mode, update with displayed segments O and new segment list
\* N, p being the length of their longest common prefix under equality of
\* targets, removes exactly the Len(O)-p last segments of O, appends exactly
\* Len(N)-p new segments, keeps the first p segments as they are, and ends
\* with the targets of the displayed segments equal to those of N.
C9_UpdateDiffsSuffix ==
    (WasUpdate /\ bar_pre.tags = AskedTags)
        => LET O == bar_pre.segments
               p == CommonPrefix(TargetsOf(bar_pre, O), NewTargets)
               made == Len(bar_pre.path_segments)
           IN /\ SubSeq(segments, 1, p) = SubSeq(O, 1, p)
              /\ SelectSeq(NewTimeouts, IsSegment)
                     = Reverse(SubSeq(O, p + 1, Len(O)))
              /\ Range(O) \cap Range(segments) = Range(SubSeq(O, 1, p))
              /\ Len(path_segments) = made + Len(NewSegments) - p
              /\ SubSeq(segments, p + 1, Len(segments))
                     = [i \in 1..(Len(NewSegments) - p) |-> made + i]
              /\ SubSeq(path_segments, 1, made)
                     = [i \in 1..made |->
                           [bar_pre.path_segments[i] EXCEPT
                               !.active = path_segments[i].active]]
              /\ TargetsOf(Bar, segments) = NewTargets

\* Two segments are kept, one is removed and one is appended.
C9_Witness ==
    /\ WasUpdate /\ bar_pre.tags = AskedTags
    /\ Len(bar_pre.segments) = 3
    /\ CommonPrefix(TargetsOf(bar_pre, bar_pre.segments), NewTargets) = 2
    /\ Len(segments) = 3
    /\ SubSeq(segments, 1, 2) = SubSeq(bar_pre.segments, 1, 2)
    /\ segments[3] # bar_pre.segments[3]

\* C11: in path mode, whenever a segment is displayed, the last displayed
\* segment is active and no other displayed segment is.
C11_OnlyLastActive ==
    (~bar_tags /\ segments # <<>>)
        => \A i \in 1..Len(segments) :
               path_segments[segments[i]].active <=> (i = Len(segments))

\* A remove has left two segments displayed, after three were.
C11_Witness ==
    /\ bar_op.name = "remove"
    /\ ~bar_tags
    /\ Len(bar_pre.segments) = 3
    /\ Len(segments) = 2
    /\ path_segments[segments[2]].active
    /\ ~bar_pre.path_segments[segments[2]].active

\* The displayed segments of the bar, as the tuples (label, icon_name, uri,
\* tag) they were made from.
Displayed ==
    [i \in 1..Len(segments) |->
        LET seg == path_segments[segments[i]]
        IN <<seg.label, seg.icon_name, seg.uri, seg.tag>>]

\* The last update was given a file that is not local and whose scheme root
\* and enclosing mount could both not be queried.
BaseFailed ==
    /\ bar_op.name = "update"
    /\ bar_op.gfile # None
    /\ bar_op.gfile[1].scheme # "file"
    /\ ~bar_op.gfile[1].root_ok
    /\ ~bar_op.gfile[1].mount_ok

\* C12: when the scheme root's and the enclosing mount's queries both fail,
\* update raises nothing and logs the failure; the bar is in path mode and
\* displays one segment per path component, labelled by it, with no base
\* segment in front: exactly the segments computed for the location, the
\* last of them active.
C12_BaseFailureDegrades ==
    BaseFailed
        => /\ bar_op.error = None
           /\ bar_op.logged
           /\ ~bar_tags
           /\ [i \in 1..Len(segments) |-> path_segments[segments[i]].label]
                  = [i \in 1..Len(bar_op.gfile[1].path) |->
                        Some(bar_op.gfile[1].path[i])]
           /\ Displayed = NewSegments
           /\ \A i \in 1..Len(segments) :
                  path_segments[segments[i]].active <=> (i = Len(segments))

\* Both queries failed for a location two components deep, while the bar
\* displayed a location with a base segment.
C12_Witness ==
    /\ BaseFailed
    /\ Len(bar_op.gfile[1].path) = 2
    /\ Len(segments) = 2
    /\ ~bar_pre.tags
    /\ Len(bar_pre.segments) >= 2
    /\ bar_pre.path_segments[bar_pre.segments[1]].icon_name # Some("")

\* C13: update with no file and with no or an empty tag list raises no error
\* and leaves the displayed segments, the separators and the mode as they
\* were.
C13_InvalidUpdateIgnored ==
    (/\ bar_op.name = "update"
     /\ bar_op.gfile = None
     /\ ~ListTruthy(bar_op.tags))
        => /\ bar_op.error = None
           /\ segments = bar_pre.segments
           /\ separators = bar_pre.separators
           /\ bar_tags = bar_pre.tags

\* The widgets of a bar: its displayed segments and their separators.
WidgetsOf(b) ==
    Range(b.segments)
        \cup {b.separators[n][1] : n \in {k \in DOMAIN b.separators : b.separators[k] # None}}

\* C10: when update changes the mode of the bar, everything displayed before
\* is purged at once, nothing being scheduled for an animated removal,
\* whatever the old and the new labels; and every segment displayed
\* afterwards was created by that update.
C10_ModeSwitchPurges ==
    (WasUpdate /\ bar_pre.tags # AskedTags)
        => /\ bar_tags = AskedTags
           /\ Range(segments_box) \cap Range(bar_pre.segments_box) = {}
           /\ DOMAIN separators \cap DOMAIN bar_pre.separators = {}
           /\ timeouts = bar_pre.timeouts
           /\ \A i \in 1..Len(segments) : segments[i] > Len(bar_pre.path_segments)
           /\ Range(segments_box) = WidgetsOf(Bar)
           /\ TargetsOf(Bar, segments) = NewTargets

\* The bar switched mode with two segments displayed, and a new label is one
\* of the old ones.
C10_Witness ==
    /\ WasUpdate /\ bar_pre.tags # AskedTags
    /\ Len(bar_pre.segments) >= 2
    /\ segments # <<>>
    /\ \E i \in 1..Len(segments), j \in 1..Len(bar_pre.segments) :
           path_segments[segments[i]].label
               = bar_pre.path_segments[bar_pre.segments[j]].label

\* The widgets the bar displays: its segments and the separators made with
\* them.
DisplayedWidgets ==
    Range(segments)
        \cup {separators[n][1] : n \in {k \in Range(segments) : separators[k] # None}}

\* C21: once the callback scheduled for a widget that remove() took off has
\* run, the widget is no child of the segments box; and when no callback is
\* pending, the children of the box are the displayed segments and their
\* separators.
C21_RemovedWidgetsLeaveBox ==
    /\ bar_op.name = "timeout"
           => Head(bar_pre.timeouts) \notin Range(segments_box)
    /\ timeouts = <<>> => Range(segments_box) = DisplayedWidgets

\* C23: the separators map has an entry for the displayed segments and for
\* nothing else, and remove(n) with n up to the number of displayed segments
\* takes off the last n of them.
C23_SeparatorsTrackSegments ==
    /\ DOMAIN separators = Range(segments)
    /\ (bar_op.name = "remove" /\ bar_op.n <= Len(bar_pre.segments))
           => segments = SubSeq(bar_pre.segments, 1,
                                Len(bar_pre.segments) - bar_op.n)

(***************************************************************************)
(* Properties of the tag registry.                                         *)
(***************************************************************************)
\* The last call was move_tag.
WasMoveTag == tag_op.name = "move_tag"

\* The last move_tag found the tag at the boundary it was to move toward.
AtBoundary ==
    /\ tag_pre.tags # <<>>
    /\ (IF tag_op.up THEN tag_pre.tags[1] ELSE Last(tag_pre.tags)) = tag_op.tag

\* C14: move_tag(tag, up=True) with the tag first in the list and
\* move_tag(tag, up=False) with the tag last leave the list as it was, write
\* no file and emit nothing.
C14_MoveAtBoundaryIsNoOp ==
    (WasMoveTag /\ AtBoundary)
        => /\ shared_tags = tag_pre.tags
           /\ tag_file = tag_pre.file
           /\ tag_log = <<>>
           /\ tag_op.error = None

\* The first of three tags was moved up.
C14_Witness ==
    /\ WasMoveTag /\ AtBoundary
    /\ tag_op.up
    /\ Len(tag_pre.tags) = 3
    /\ shared_tags = tag_pre.tags

\* The number of times t occurs in list.
Count(list, t) == Cardinality({i \in 1..Len(list) : list[i] = t})

\* C15: move_tag of a tag that is in the list and not at the boundary in
\* the direction given exchanges the tag, at its (first) index i, with the
\* element at i-1 (up) or i+1 (down), leaves every other position as it was,
\* and keeps the list a permutation of what it was.
C15_MoveSwapsNeighbours ==
    (WasMoveTag /\ ~AtBoundary /\ In(tag_op.tag, tag_pre.tags))
        => LET i == Index(tag_pre.tags, tag_op.tag)
               j == IF tag_op.up THEN i - 1 ELSE i + 1
           IN /\ tag_op.error = None
              /\ j \in 1..Len(tag_pre.tags)
              /\ Len(shared_tags) = Len(tag_pre.tags)
              /\ shared_tags[j] = tag_op.tag
              /\ shared_tags[i] = tag_pre.tags[j]
              /\ \A k \in 1..Len(shared_tags) :
                     k \notin {i, j} => shared_tags[k] = tag_pre.tags[k]
              /\ \A t \in RegistryTags :
                     Count(shared_tags, t) = Count(tag_pre.tags, t)

\* The last of three different tags was moved up, the first staying.
C15_Witness ==
    /\ WasMoveTag /\ tag_op.up
    /\ Len(tag_pre.tags) = 3
    /\ tag_pre.tags[3] = tag_op.tag
    /\ tag_pre.tags[1] # tag_op.tag /\ tag_pre.tags[2] # tag_op.tag
    /\ shared_tags = <<tag_pre.tags[1], tag_pre.tags[3], tag_pre.tags[2]>>

\* C16: no tag occurs twice in the registry, in any reachable state.
C16_DuplicateFree ==
    \A i, j \in 1..Len(shared_tags) : i # j => shared_tags[i] # shared_tags[j]

\* C17: the file holds the newline-join of the list, in every state; and a
\* call that writes the file writes the whole of that text.
C17_FileTracksList ==
    /\ tag_file = JoinLines(shared_tags)
    /\ \A k \in 1..Len(tag_log) :
           tag_log[k][1] = "write" => tag_log[k][2] = JoinLines(shared_tags)

\* A call has shortened the list to a list of two tags and rewritten a file
\* that was longer.
C17_Witness ==
    /\ tag_op.name = "remove_tags"
    /\ Len(tag_pre.tags) = 3
    /\ Len(shared_tags) = 2
    /\ tag_file # tag_pre.file
    /\ tag_file = shared_tags[1] \o "\n" \o shared_tags[2]

\* What a call that updates does outside the list: one write of the file,
\* then one "tags-changed" with the change given.
WriteThenEmit(change) ==
    << <<"write", JoinLines(shared_tags)>>, <<"emit", change>> >>

\* C18: add_tags writes the file and then emits one "tags-changed" with
\* MORE_STRICT, remove_tags likewise with LESS_STRICT, and a move_tag that
\* changes the list likewise with DIFFERENT; no call that changes the list
\* does otherwise.
C18_OneNotificationPerMutation ==
    /\ tag_op.name = "add_tags" => tag_log = WriteThenEmit("MORE_STRICT")
    /\ tag_op.name = "remove_tags" => tag_log = WriteThenEmit("LESS_STRICT")
    /\ (WasMoveTag /\ shared_tags # tag_pre.tags)
           => tag_log = WriteThenEmit("DIFFERENT")
    /\ (tag_op.name # "init" /\ shared_tags # tag_pre.tags)
           => /\ Len(tag_log) = 2
              /\ tag_log[1][1] = "write"
              /\ tag_log[2][1] = "emit"

\* add_tags has added two tags to the list.
C18_Witness ==
    /\ tag_op.name = "add_tags"
    /\ Len(shared_tags) = Len(tag_pre.tags) + 2
    /\ tag_log[2] = <<"emit", "MORE_STRICT">>

RECURSIVE Split(_)
\* text.split("\n")
Split(text) ==
    IF \A k \in 1..Len(text) : SubSeq(text, k, k) # "\n"
    THEN <<text>>
    ELSE LET i == CHOOSE k \in 1..Len(text) :
                      /\ SubSeq(text, k, k) = "\n"
                      /\ \A j \in 1..(k - 1) : SubSeq(text, j, j) # "\n"
         IN <<SubSeq(text, 1, i - 1)>> \o Split(SubSeq(text, i + 1, Len(text)))

\* C19: the text update_tags writes, split on newlines, is the list the
\* registry holds, the empty list included.
C19_RoundTrip ==
    \A k \in 1..Len(tag_log) :
        tag_log[k][1] = "write" => Split(tag_log[k][2]) = shared_tags

(***************************************************************************)
(* Properties of the trash action.                                         *)
(***************************************************************************)
\* The files among the selected children of the last run, in order.
SelectedFiles ==
    LET items == SelectSeq(trash_op.sel, LAMBDA child : child.kind = "item")
    IN [i \in 1..Len(items) |-> items[i].name]

C25_ToastNamesTrashedItem ==
    (trash_op.name = "trash" /\ Cardinality(trash_done) = 1)
        => /\ trash_toast # None
           /\ trash_toast[1].kind = "name"
           /\ trash_toast[1].name \in trash_done

====
